---- MODULE Spec2Model ----
(***************************************************************************)
(* Verification model of the poetic analysis engine of Carnivalito         *)
(* (class PoetryService, src/server/services/learningService.js).          *)
(*                                                                         *)
(* A JavaScript string is modelled as a sequence of one-character strings, *)
(* so "casa" is <<"c","a","s","a">>.  Every engine function is an operator *)
(* computed the way the code computes it; a call that can throw returns an *)
(* outcome record [kind |-> "return" | "throw", value |-> ...].            *)
(*                                                                         *)
(* The voting routes (POST /vote, GET /ranking of src/unnamed/part_000)    *)
(* are modelled as handlers whose database callbacks are separate steps,   *)
(* over the votes table and the ranking cache.                             *)
(***************************************************************************)
EXTENDS Integers, Sequences, FiniteSets, TLC

VARIABLES text, verses, level, counts, calls, votes, cache, requests

vars == <<text, verses, level, counts, calls, votes, cache, requests>>

(***************************************************************************)
(* Bounds of the model.                                                    *)
(***************************************************************************)
MaxVerseTextLen == 5

MaxCounts == 4

MaxEndingLen == 4

MaxGroups == 27

MaxQuickLen == 4

MaxSchemeVerses == 4

MaxSylLen == 4

MaxPoemLen == 4

MaxCalls == 2

MaxElapsed == 1

MaxRhymeVerses == 4

MaxMetricVerses == 3

MaxStyleVerses == 2

MaxEngineVerses == 3

(***************************************************************************)
(* Characters and the character classes of the regular expressions.        *)
(***************************************************************************)
LowerAscii ==
  << "a","b","c","d","e","f","g","h","i","j","k","l","m",
     "n","o","p","q","r","s","t","u","v","w","x","y","z" >>

UpperAscii ==
  << "A","B","C","D","E","F","G","H","I","J","K","L","M",
     "N","O","P","Q","R","S","T","U","V","W","X","Y","Z" >>

AccentedLower == << "á","é","í","ó","ú","ü","ñ" >>

AccentedUpper == << "Á","É","Í","Ó","Ú","Ü","Ñ" >>

\* The base letter NFD decomposition leaves once the combining mark is dropped.
AccentBase == << "a","e","i","o","u","u","n" >>

DigitChars == {"0","1","2","3","4","5","6","7","8","9"}

Range(s) == {s[i] : i \in 1..Len(s)}

LowerLetters == Range(LowerAscii)

UpperLetters == Range(UpperAscii)

AccentedLowerLetters == Range(AccentedLower)

AccentedUpperLetters == Range(AccentedUpper)

WhiteSpace == {" ", "\n", "\t", "\r"}

IndexOf(s, c) ==
  IF \E i \in 1..Len(s) : s[i] = c THEN CHOOSE i \in 1..Len(s) : s[i] = c ELSE 0

Max2(a, b) == IF a >= b THEN a ELSE b

Min2(a, b) == IF a <= b THEN a ELSE b

\* \w of a JavaScript regular expression: [A-Za-z0-9_]
WordChars == LowerLetters \cup UpperLetters \cup DigitChars \cup {"_"}

IsWordChar(c) == c \in WordChars

\* \s of a JavaScript regular expression (the white space of the model's alphabet)
IsSpace(c) == c \in WhiteSpace

\* String.prototype.toLowerCase, one character
lowerChar(c) ==
  IF c \in UpperLetters THEN LowerAscii[IndexOf(UpperAscii, c)]
  ELSE IF c \in AccentedUpperLetters THEN AccentedLower[IndexOf(AccentedUpper, c)]
  ELSE c

toLowerCase(s) == [i \in 1..Len(s) |-> lowerChar(s[i])]

\* .normalize("NFD").replace(/[\u0300-\u036f]/g, ""), one character
stripAccentChar(c) ==
  IF c \in AccentedLowerLetters THEN AccentBase[IndexOf(AccentedLower, c)]
  ELSE IF c \in AccentedUpperLetters
       THEN UpperAscii[IndexOf(LowerAscii, AccentBase[IndexOf(AccentedUpper, c)])]
  ELSE c

stripDiacritics(s) == [i \in 1..Len(s) |-> stripAccentChar(s[i])]

RECURSIVE dropLeadingSpace(_)
dropLeadingSpace(s) ==
  IF s /= <<>> /\ IsSpace(Head(s)) THEN dropLeadingSpace(Tail(s)) ELSE s

RECURSIVE dropTrailingSpace(_)
dropTrailingSpace(s) ==
  IF s /= <<>> /\ IsSpace(s[Len(s)]) THEN dropTrailingSpace(SubSeq(s, 1, Len(s) - 1)) ELSE s

\* String.prototype.trim
trim(s) == dropTrailingSpace(dropLeadingSpace(s))

\* String.prototype.slice(-n): the last n characters (the whole string when shorter)
sliceLast(s, n) == SubSeq(s, Max2(1, Len(s) - n + 1), Len(s))

\* String.prototype.split on a regular expression matching runs of the characters
\* of sep (/\s+/, /\n+/): "a b " gives "a", "b", "" and "" gives the one token "".
RECURSIVE splitRuns(_, _, _, _)
splitRuns(s, sep, acc, inRun) ==
  IF s = <<>> THEN acc
  ELSE IF Head(s) \in sep
       THEN splitRuns(Tail(s), sep, IF inRun THEN acc ELSE Append(acc, <<>>), TRUE)
       ELSE splitRuns(Tail(s), sep, [acc EXCEPT ![Len(acc)] = Append(@, Head(s))], FALSE)

split(s, sep) == splitRuns(s, sep, << <<>> >>, FALSE)

\* String.prototype.includes
includes(s, sub) ==
  \E i \in 0..(Len(s) - Len(sub)) : SubSeq(s, i + 1, i + Len(sub)) = sub

(***************************************************************************)
(* initializeSyllablePatterns                                              *)
(***************************************************************************)
vowels == << "a","e","i","o","u","á","é","í","ó","ú","ü" >>

diphthongs ==
  { <<"a","i">>, <<"e","i">>, <<"o","i">>, <<"u","i">>, <<"a","u">>, <<"e","u">>,
    <<"o","u">>, <<"i","a">>, <<"i","e">>, <<"i","o">>, <<"u","e">>, <<"u","a">>,
    <<"u","o">> }

hiatus ==
  { <<"a","á">>, <<"e","é">>, <<"i","í">>, <<"o","ó">>, <<"u","ú">>,
    <<"á","a">>, <<"é","e">>, <<"í","i">>, <<"ó","o">>, <<"ú","u">> }

VowelChars == Range(vowels)

isVowel(c) == c \in VowelChars

isDiphthong(twoChars) == toLowerCase(twoChars) \in diphthongs

isHiatus(twoChars) == toLowerCase(twoChars) \in hiatus

(***************************************************************************)
(* countWordSyllables: the while loop, one iteration per call.             *)
(***************************************************************************)
\* The while loop adding a syllable for every vowel, whatever precedes it.
RECURSIVE scanWordEveryVowel(_, _, _, _)
scanWordEveryVowel(word, i, syllables, prevWasVowel) ==
  IF i > Len(word) THEN syllables
  ELSE IF isVowel(word[i])
       THEN scanWordEveryVowel(word, i + 1, syllables + 1, TRUE)
       ELSE scanWordEveryVowel(word, i + 1, syllables, FALSE)

RECURSIVE scanWord(_, _, _, _)
scanWord(word, i, syllables, prevWasVowel) ==
  IF i > Len(word) THEN syllables
  ELSE LET char == word[i]
           nextChar == IF i + 1 <= Len(word) THEN <<word[i + 1]>> ELSE <<>>
       IN  IF isVowel(char)
           THEN IF isDiphthong(<<char>> \o nextChar)
                THEN scanWord(word, i + 2,
                              IF prevWasVowel THEN syllables ELSE syllables + 1, TRUE)
                ELSE IF isHiatus(<<char>> \o nextChar)
                THEN scanWord(word, i + 1, syllables + 1, TRUE)
                ELSE scanWord(word, i + 1,
                              IF prevWasVowel THEN syllables ELSE syllables + 1, TRUE)
           ELSE scanWord(word, i + 1, syllables, FALSE)

\* countWordSyllables without its floor of one syllable.
countWordSyllablesNoFloor(word) ==
  IF word = <<>> THEN 0 ELSE scanWord(word, 1, 0, FALSE)

countWordSyllables(word) ==
  IF word = <<>> THEN 0 ELSE Max2(1, scanWord(word, 1, 0, FALSE))

RECURSIVE sumWordSyllables(_)
sumWordSyllables(words) ==
  IF words = <<>> THEN 0
  ELSE countWordSyllables(Head(words)) + sumWordSyllables(Tail(words))

\* applySinalefa counting every boundary after a word that ends in a vowel,
\* whatever the next word starts with.
applySinalefaAnyNextWord(words) ==
  Cardinality({ i \in 1..(Len(words) - 1) :
                  /\ words[i] /= <<>>
                  /\ words[i + 1] /= <<>>
                  /\ isVowel(words[i][Len(words[i])]) })

applySinalefa(words) ==
  Cardinality({ i \in 1..(Len(words) - 1) :
                  /\ words[i] /= <<>>
                  /\ words[i + 1] /= <<>>
                  /\ isVowel(words[i][Len(words[i])])
                  /\ isVowel(words[i + 1][1]) })

\* .replace(/[^\w\sáéíóúü]/g, '')
keepLettersAndSpaces(s) ==
  SelectSeq(s, LAMBDA c : IsWordChar(c) \/ IsSpace(c) \/ c \in {"á","é","í","ó","ú","ü"})

\* The cleaned string countSyllables works on.
syllableText(t) == trim(keepLettersAndSpaces(stripDiacritics(toLowerCase(t))))

\* countSyllables without its early return for an empty cleaned string.
countSyllablesNoEmptyGuard(t) ==
  LET words == split(syllableText(t), WhiteSpace)
  IN  Max2(1, sumWordSyllables(words) - applySinalefa(words))

countSyllables(t) ==
  LET word == syllableText(t)
  IN  IF word = <<>> THEN 0
      ELSE LET words == split(word, WhiteSpace)
           IN  Max2(1, sumWordSyllables(words) - applySinalefa(words))

(***************************************************************************)
(* JavaScript values that are not of one type: a string or a number, and   *)
(* the outcome of a call that may throw.                                   *)
(***************************************************************************)
JsStr(s) == [type |-> "string", str |-> s, num |-> 0]

JsNum(n) == [type |-> "number", str |-> "", num |-> n]

Return(v) == [kind |-> "return", value |-> v]

Throw(e) == [kind |-> "throw", value |-> e]

\* The property of a string that is not one (''.consonant).
undefined == <<"undefined">>

RECURSIVE joinStr(_, _)
joinStr(parts, sep) ==
  IF parts = <<>> THEN ""
  ELSE IF Len(parts) = 1 THEN parts[1]
  ELSE parts[1] \o sep \o joinStr(Tail(parts), sep)

(***************************************************************************)
(* analyzeMetrics and its helpers.                                         *)
(***************************************************************************)
\* word.match(/[aeiou]s?$/)
endsInVowelOrVowelS(word) ==
  LET n == Len(word)
  IN  \/ n >= 1 /\ word[n] \in {"a","e","i","o","u"}
      \/ n >= 2 /\ word[n] = "s" /\ word[n - 1] \in {"a","e","i","o","u"}

stressOfWord(word) ==
  IF \E i \in 1..Len(word) : word[i] \in {"á","é","í","ó","ú"} THEN "tónica"
  ELSE IF Len(word) > 2
       THEN IF endsInVowelOrVowelS(word) THEN "llana" ELSE "aguda"
       ELSE "átona"

analyzeStress(verse) ==
  LET words == split(toLowerCase(verse), WhiteSpace)
  IN  joinStr([i \in 1..Len(words) |-> stressOfWord(words[i])], "-")

getVerseEnding(verse) ==
  LET words == split(toLowerCase(verse), WhiteSpace)
      lastWord == words[Len(words)]
  IN  IF lastWord = <<>> THEN <<>> ELSE sliceLast(lastWord, 3)

\* determineMetricalPattern naming every mix of sevens and fives a seguidilla.
determineMetricalPatternAnySevenFive(syllableCounts) ==
  IF Range(syllableCounts) = {5, 7} THEN "Seguidilla"
  ELSE IF Cardinality(Range(syllableCounts)) = 1
  THEN ToString(syllableCounts[1]) \o " sílabas"
  ELSE "Métrica libre"

determineMetricalPattern(syllableCounts) ==
  LET unique == Range(syllableCounts)
  IN  IF Cardinality(unique) = 1
      THEN LET count == CHOOSE c \in unique : TRUE
           IN  CASE count = 8 -> "Octosílabos"
                 [] count = 11 -> "Endecasílabos"
                 [] count = 7 -> "Heptasílabos"
                 [] count = 9 -> "Eneasílabos"
                 [] count = 6 -> "Hexasílabos"
                 [] OTHER -> ToString(count) \o " sílabas"
      ELSE IF syllableCounts = <<7, 5, 7, 5>> THEN "Seguidilla"
      ELSE "Métrica libre"

frequencyOf(arr, item) == Cardinality({i \in 1..Len(arr) : arr[i] = item})

\* Object.keys(frequency).reduce(...): the keys of an object that are array
\* indices come in ascending numeric order; a is the accumulator.
RECURSIVE reduceMostCommon(_, _, _)
reduceMostCommon(arr, a, rest) ==
  IF rest = {} THEN a
  ELSE LET b == CHOOSE k \in rest : \A o \in rest : k <= o
       IN  reduceMostCommon(arr,
                            IF frequencyOf(arr, a) > frequencyOf(arr, b) THEN a ELSE b,
                            rest \ {b})

\* getMostCommon keeping the first key among those with the highest frequency.
getMostCommonFirstKey(arr) ==
  IF arr = <<>> THEN Throw("TypeError")
  ELSE LET keys == Range(arr)
       IN  Return(ToString(CHOOSE k \in keys :
                    /\ \A o \in keys : frequencyOf(arr, k) >= frequencyOf(arr, o)
                    /\ \A o \in keys : frequencyOf(arr, o) = frequencyOf(arr, k) => k <= o))

\* Throws a TypeError on an empty array (reduce with no initial value); the
\* result is a key of the frequency object, so a string.
getMostCommon(arr) ==
  IF arr = <<>> THEN Throw("TypeError")
  ELSE LET keys == Range(arr)
           first == CHOOSE k \in keys : \A o \in keys : k <= o
       IN  Return(ToString(reduceMostCommon(arr, first, keys \ {first})))

RECURSIVE sumSeq(_)
sumSeq(s) == IF s = <<>> THEN 0 ELSE Head(s) + sumSeq(Tail(s))

\* Math.max(...counts) and Math.min(...counts) of a non-empty array
maxOf(s) == CHOOSE m \in Range(s) : \A o \in Range(s) : m >= o

minOf(s) == CHOOSE m \in Range(s) : \A o \in Range(s) : m <= o

\* The variation taken between the last and the first count.
syllableVariationLastFirst(syllableCounts) ==
  syllableCounts[Len(syllableCounts)] - syllableCounts[1]

syllableVariationOf(syllableCounts) == maxOf(syllableCounts) - minOf(syllableCounts)

\* Math.round(avg * 100) / 100, held in hundredths (exact for fewer than 8 verses,
\* where sum * 100 / length is never a binary-inexact half).
averageSyllablesOf(syllableCounts) ==
  (200 * sumSeq(syllableCounts) + Len(syllableCounts)) \div (2 * Len(syllableCounts))

verseAnalysisOf(verse, index) ==
  [ number |-> index,
    text |-> verse,
    syllables |-> countSyllables(verse),
    stress |-> analyzeStress(verse),
    words |-> Len(split(verse, WhiteSpace)),
    ending |-> getVerseEnding(verse) ]

\* With no verse the statistics call getMostCommon([]), which throws.
analyzeMetrics(vs) ==
  LET verseAnalysis == [i \in 1..Len(vs) |-> verseAnalysisOf(vs[i], i)]
      syllableCounts == [i \in 1..Len(vs) |-> verseAnalysis[i].syllables]
      dominant == getMostCommon(syllableCounts)
  IN  IF dominant.kind = "throw" THEN dominant
      ELSE LET syllableVariation == syllableVariationOf(syllableCounts)
           IN  Return([ verses |-> verseAnalysis,
                        pattern |-> determineMetricalPattern(syllableCounts),
                        statistics |->
                          [ averageSyllables |-> averageSyllablesOf(syllableCounts),
                            syllableVariation |-> syllableVariation,
                            isRegular |-> syllableVariation <= 1,
                            dominantMeter |-> dominant.value ] ])

(***************************************************************************)
(* analyzeRhyme and its helpers.                                           *)
(***************************************************************************)
\* getVowelPattern returns the empty string, not an object, when the last token
\* is empty; every property of that string reads as undefined.
emptyStringPattern ==
  [object |-> FALSE, asonant |-> undefined, consonant |-> undefined, word |-> undefined]

getVowelPattern(verse) ==
  LET tokens == split(toLowerCase(verse), WhiteSpace)
      lastWord == tokens[Len(tokens)]
  IN  IF lastWord = <<>> THEN emptyStringPattern
      ELSE LET vowelPattern ==
                 SelectSeq(lastWord,
                           LAMBDA c : c \in {"a","e","i","o","u","á","é","í","ó","ú"})
           IN  [ object |-> TRUE,
                 asonant |-> sliceLast(vowelPattern, 2),
                 consonant |-> sliceLast(lastWord, 3),
                 word |-> lastWord ]

\* rhymesConsonant comparing the whole three-character endings.
rhymesConsonantWholeEnding(ending1, ending2) ==
  IF \/ ending1 = undefined \/ ending1 = <<>>
     \/ ending2 = undefined \/ ending2 = <<>>
     \/ Len(ending1) < 2 \/ Len(ending2) < 2
  THEN FALSE
  ELSE ending1 = ending2

rhymesConsonant(ending1, ending2) ==
  IF \/ ending1 = undefined \/ ending1 = <<>>
     \/ ending2 = undefined \/ ending2 = <<>>
     \/ Len(ending1) < 2 \/ Len(ending2) < 2
  THEN FALSE
  ELSE sliceLast(ending1, 2) = sliceLast(ending2, 2)

\* rhymesAsonant asking for two vowels on each side.
rhymesAsonantTwoVowels(vowels1, vowels2) ==
  IF \/ vowels1 = undefined \/ vowels1 = <<>>
     \/ vowels2 = undefined \/ vowels2 = <<>>
     \/ Len(vowels1) < 2 \/ Len(vowels2) < 2
  THEN FALSE
  ELSE vowels1 = vowels2

rhymesAsonant(vowels1, vowels2) ==
  IF \/ vowels1 = undefined \/ vowels1 = <<>>
     \/ vowels2 = undefined \/ vowels2 = <<>>
  THEN FALSE
  ELSE vowels1 = vowels2

\* The characters from code 65 on, as far as a label can reach in the model.
CharsFromA ==
  << "A","B","C","D","E","F","G","H","I","J","K","L","M",
     "N","O","P","Q","R","S","T","U","V","W","X","Y","Z",
     "[","\\","]","^","_" >>

charCodeAt(c) == IndexOf(CharsFromA, c) + 64

\* String.fromCharCode giving the character one place further on.
fromCharCodeNext(n) ==
  IF n - 63 \in 1..Len(CharsFromA) THEN CharsFromA[n - 63] ELSE "U+" \o ToString(n + 1)

fromCharCode(n) ==
  IF n - 64 \in 1..Len(CharsFromA) THEN CharsFromA[n - 64] ELSE "U+" \o ToString(n)

\* The for-of loops over rhymeMap.entries(): the label of the first entry, in
\* insertion order, whose pattern matches; "" when none does (foundRhyme stays null).
firstLabel(rhymeMap, hits) ==
  IF hits = {} THEN ""
  ELSE rhymeMap[CHOOSE k \in hits : \A o \in hits : k <= o].label

findConsonant(rhymeMap, pattern) ==
  firstLabel(rhymeMap,
             {k \in 1..Len(rhymeMap) :
                rhymesConsonant(pattern.consonant, rhymeMap[k].pattern.consonant)})

\* The search for an assonant group that never finds one.
findAsonantNever(rhymeMap, pattern) == firstLabel(rhymeMap, {})

findAsonant(rhymeMap, pattern) ==
  firstLabel(rhymeMap,
             {k \in 1..Len(rhymeMap) :
                rhymesAsonant(pattern.asonant, rhymeMap[k].pattern.asonant)})

\* Map.prototype.set: every pattern object is a key of its own; the empty
\* string is one key, whose entry keeps its place and takes the new label.
mapSet(rhymeMap, pattern, label) ==
  IF ~pattern.object /\ \E k \in 1..Len(rhymeMap) : ~rhymeMap[k].pattern.object
  THEN [k \in 1..Len(rhymeMap) |->
          IF rhymeMap[k].pattern.object THEN rhymeMap[k]
          ELSE [pattern |-> pattern, label |-> label]]
  ELSE Append(rhymeMap, [pattern |-> pattern, label |-> label])

\* assignGroups entering every verse in rhymeMap, so that later verses are
\* compared with every member of a group.
RECURSIVE assignGroupsAllMembers(_, _, _)
assignGroupsAllMembers(patterns, index, st) ==
  IF index > Len(patterns) THEN st
  ELSE LET pattern == patterns[index]
           byConsonant == findConsonant(st.rhymeMap, pattern)
           foundRhyme ==
             IF byConsonant /= "" THEN byConsonant
             ELSE findAsonant(st.rhymeMap, pattern)
       IN  IF foundRhyme /= ""
           THEN assignGroupsAllMembers(patterns, index + 1,
                  [ groups |-> Append(st.groups, foundRhyme),
                    rhymeMap |-> Append(st.rhymeMap, [pattern |-> pattern, label |-> foundRhyme]),
                    currentLabel |-> st.currentLabel ])
           ELSE assignGroupsAllMembers(patterns, index + 1,
                  [ groups |-> Append(st.groups, st.currentLabel),
                    rhymeMap |-> mapSet(st.rhymeMap, pattern, st.currentLabel),
                    currentLabel |->
                      fromCharCode(charCodeAt(st.currentLabel) + 1) ])

\* patterns.forEach(...): st holds groups, rhymeMap and currentLabel.
RECURSIVE assignGroups(_, _, _)
assignGroups(patterns, index, st) ==
  IF index > Len(patterns) THEN st
  ELSE LET pattern == patterns[index]
           byConsonant == findConsonant(st.rhymeMap, pattern)
           foundRhyme ==
             IF byConsonant /= "" THEN byConsonant
             ELSE findAsonant(st.rhymeMap, pattern)
       IN  IF foundRhyme /= ""
           THEN assignGroups(patterns, index + 1,
                             [st EXCEPT !.groups = Append(@, foundRhyme)])
           ELSE assignGroups(patterns, index + 1,
                             [ groups |-> Append(st.groups, st.currentLabel),
                               rhymeMap |-> mapSet(st.rhymeMap, pattern, st.currentLabel),
                               currentLabel |->
                                 fromCharCode(charCodeAt(st.currentLabel) + 1) ])

\* rhymeTypeOf looking only at pairs of consecutive verses.
rhymeTypeOfNeighbours(patterns) ==
  LET n == Len(patterns)
      hasConsonantRhymes ==
        \E i \in 1..(n - 1) :
          rhymesConsonant(patterns[i].consonant, patterns[i + 1].consonant)
      hasAsonantRhymes ==
        \E i \in 1..(n - 1) :
          rhymesAsonant(patterns[i].asonant, patterns[i + 1].asonant)
  IN  IF hasConsonantRhymes THEN "consonante"
      ELSE IF hasAsonantRhymes THEN "asonante"
      ELSE "libre"

rhymeTypeOf(patterns) ==
  LET n == Len(patterns)
      hasConsonantRhymes ==
        \E i \in 1..n : \E j \in 1..n :
          i /= j /\ rhymesConsonant(patterns[i].consonant, patterns[j].consonant)
      hasAsonantRhymes ==
        \E i \in 1..n : \E j \in 1..n :
          i /= j /\ rhymesAsonant(patterns[i].asonant, patterns[j].asonant)
  IN  IF hasConsonantRhymes THEN "consonante"
      ELSE IF hasAsonantRhymes THEN "asonante"
      ELSE "libre"

detectRhymeScheme(patterns) ==
  LET st == assignGroups(patterns, 1,
                         [groups |-> <<>>, rhymeMap |-> <<>>, currentLabel |-> "A"])
  IN  [ pattern |-> joinStr(st.groups, ""),
        type |-> rhymeTypeOf(patterns),
        groups |-> st.groups ]

\* qualityLoop without the point for an equal last character.
RECURSIVE qualityLoopNoPartial(_, _, _, _, _)
qualityLoopNoPartial(patterns, i, j, score, totalPairs) ==
  IF i > Len(patterns) THEN Return([score |-> score, totalPairs |-> totalPairs])
  ELSE IF j > Len(patterns)
       THEN qualityLoopNoPartial(patterns, i + 1, i + 2, score, totalPairs)
  ELSE IF rhymesConsonant(patterns[i].consonant, patterns[j].consonant)
       THEN qualityLoopNoPartial(patterns, i, j + 1, score + 3, totalPairs + 1)
  ELSE IF rhymesAsonant(patterns[i].asonant, patterns[j].asonant)
       THEN qualityLoopNoPartial(patterns, i, j + 1, score + 2, totalPairs + 1)
  ELSE IF patterns[i].consonant = undefined \/ patterns[j].consonant = undefined
       THEN Throw("TypeError")
  ELSE qualityLoopNoPartial(patterns, i, j + 1, score, totalPairs + 1)

\* The two nested for loops; reading .slice of an undefined consonant throws.
RECURSIVE qualityLoop(_, _, _, _, _)
qualityLoop(patterns, i, j, score, totalPairs) ==
  IF i > Len(patterns) THEN Return([score |-> score, totalPairs |-> totalPairs])
  ELSE IF j > Len(patterns) THEN qualityLoop(patterns, i + 1, i + 2, score, totalPairs)
  ELSE IF rhymesConsonant(patterns[i].consonant, patterns[j].consonant)
       THEN qualityLoop(patterns, i, j + 1, score + 3, totalPairs + 1)
  ELSE IF rhymesAsonant(patterns[i].asonant, patterns[j].asonant)
       THEN qualityLoop(patterns, i, j + 1, score + 2, totalPairs + 1)
  ELSE IF patterns[i].consonant = undefined \/ patterns[j].consonant = undefined
       THEN Throw("TypeError")
  ELSE IF sliceLast(patterns[i].consonant, 1) = sliceLast(patterns[j].consonant, 1)
       THEN qualityLoop(patterns, i, j + 1, score + 1, totalPairs + 1)
  ELSE qualityLoop(patterns, i, j + 1, score, totalPairs + 1)

\* quality = score / (totalPairs * 3), compared exactly: q > 0.8 iff 10q > 8.
evaluateRhymeQuality(patterns) ==
  LET loop == qualityLoop(patterns, 1, 2, 0, 0)
  IN  IF loop.kind = "throw" THEN loop
      ELSE LET score == loop.value.score
               totalPairs == loop.value.totalPairs
           IN  IF totalPairs = 0 THEN Return(JsNum(0))
               ELSE IF 10 * score > 8 * totalPairs * 3 THEN Return(JsStr("excelente"))
               ELSE IF 10 * score > 6 * totalPairs * 3 THEN Return(JsStr("buena"))
               ELSE IF 10 * score > 4 * totalPairs * 3 THEN Return(JsStr("regular"))
               ELSE IF 10 * score > 2 * totalPairs * 3 THEN Return(JsStr("débil"))
               ELSE Return(JsStr("sin rima"))

analyzeRhyme(vs) ==
  LET endings == [i \in 1..Len(vs) |-> getVowelPattern(vs[i])]
      rhymeScheme == detectRhymeScheme(endings)
      quality == evaluateRhymeQuality(endings)
  IN  IF quality.kind = "throw" THEN quality
      ELSE Return([ scheme |-> rhymeScheme.pattern,
                    type |-> rhymeScheme.type,
                    quality |-> quality.value,
                    details |-> [i \in 1..Len(vs) |->
                                   [ verse |-> i,
                                     ending |-> endings[i],
                                     rhymeGroup |-> rhymeScheme.groups[i] ]] ])

(***************************************************************************)
(* analyzeCarnavalStyle and its helpers.  The score is held in hundredths  *)
(* (0.1 is 10); the binary rounding of the additions is not represented.   *)
(***************************************************************************)
carnavalWords ==
  << <<"c","a","r","n","a","v","a","l">>,
     <<"c","h","i","r","i","g","o","t","a">>,
     <<"c","o","m","p","a","r","s","a">>,
     <<"c","o","r","o">>,
     <<"c","u","a","r","t","e","t","o">>,
     <<"f","a","l","l","a">>,
     <<"c","o","a","c">>,
     <<"c","a","d","i","z">>,
     <<"c","á","d","i","z">>,
     <<"g","a","d","i","t","a","n","o">>,
     <<"t","a","c","i","t","a">>,
     <<"c","a","l","e","t","a">>,
     <<"m","a","r">>,
     <<"s","a","l">>,
     <<"b","a","r","r","i","o">>,
     <<"p","u","e","b","l","o">> >>

gaditanExpressions ==
  << <<"p","i","s","h","a">>,
     <<"m","o","s","t","r","o">>,
     <<"z","a","m","b","o","m","b","a","z","o">>,
     <<"s","a","l","e","r","o">>,
     <<"a","r","t","e">>,
     <<"o","l","é">>,
     <<"v","i","v","a">>,
     <<"a","y"," ","m","a","r","e">>,
     <<"q","u","é"," ","r","i","c","o">> >>

RECURSIVE joinWith(_, _)
joinWith(parts, sep) ==
  IF parts = <<>> THEN <<>>
  ELSE IF Len(parts) = 1 THEN parts[1]
  ELSE parts[1] \o sep \o joinWith(Tail(parts), sep)

\* The words of a list that the text includes, in list order.
foundIn(styleText, list) == SelectSeq(list, LAMBDA w : includes(styleText, w))

wordFeature(word) == <<"V","o","c","a","b","u","l","a","r","i","o"," ","c","a","r","n","a","v","a","l","e","r","o",":"," ","\"">> \o word \o <<"\"">>

exprFeature(expr) == <<"E","x","p","r","e","s","i","ó","n"," ","g","a","d","i","t","a","n","a",":"," ","\"">> \o expr \o <<"\"">>

octosyllableFeature == <<"M","é","t","r","i","c","a"," ","o","c","t","o","s","í","l","a","b","a"," ","t","r","a","d","i","c","i","o","n","a","l">>

rhymeFeature(type) ==
  <<"R","i","m","a"," ">> \o type \o <<" ","t","r","a","d","i","c","i","o","n","a","l">>

rhymeTypeChars(type) ==
  CASE type = "consonante" -> <<"c","o","n","s","o","n","a","n","t","e">>
    [] type = "asonante" -> <<"a","s","o","n","a","n","t","e">>
    [] OTHER -> <<"l","i","b","r","e">>

getStyleLevel(score) ==
  IF score >= 80 THEN "auténtico carnavalero"
  ELSE IF score >= 60 THEN "estilo carnavalero"
  ELSE IF score >= 40 THEN "reminiscencias carnavaleras"
  ELSE IF score >= 20 THEN "algunas influencias carnavaleras"
  ELSE "estilo no carnavalero"

\* getStyleRecommendations without its last rule.
getStyleRecommendationsThreeRules(score, features) ==
  (IF score < 30
   THEN << "Incluye más vocabulario típico del Carnaval de Cádiz",
           "Usa expresiones gaditanas como \"pisha\", \"mostro\", \"salero\"" >>
   ELSE <<>>)
  \o (IF ~\E k \in 1..Len(features) : includes(features[k], <<"o","c","t","o","s","í","l","a","b","a">>)
      THEN << "Considera usar octosílabos (8 sílabas por verso)" >>
      ELSE <<>>)
  \o (IF ~\E k \in 1..Len(features) : includes(features[k], <<"R","i","m","a">>)
      THEN << "Añade rima consonante o asonante para mayor musicalidad" >>
      ELSE <<>>)

getStyleRecommendations(score, features) ==
  (IF score < 30
   THEN << "Incluye más vocabulario típico del Carnaval de Cádiz",
           "Usa expresiones gaditanas como \"pisha\", \"mostro\", \"salero\"" >>
   ELSE <<>>)
  \o (IF ~\E k \in 1..Len(features) : includes(features[k], <<"o","c","t","o","s","í","l","a","b","a">>)
      THEN << "Considera usar octosílabos (8 sílabas por verso)" >>
      ELSE <<>>)
  \o (IF ~\E k \in 1..Len(features) : includes(features[k], <<"R","i","m","a">>)
      THEN << "Añade rima consonante o asonante para mayor musicalidad" >>
      ELSE <<>>)
  \o (IF score < 50
      THEN << "Referencias al mar, La Caleta, o la vida gaditana enriquecerían el texto" >>
      ELSE <<>>)

\* score -= 0.1 for each theme word the text includes
wordScoreSubtracted(found) == 0 - 10 * Len(found)

\* score += 0.1 for each theme word the text includes
wordScore(found) == 10 * Len(found)

\* score += 0.1 for each expression the text includes
exprScoreTenth(found) == 10 * Len(found)

\* score += 0.15 for each expression the text includes
exprScore(found) == 15 * Len(found)

hasOctosyllablesOf(vs) ==
  2 * Cardinality({k \in 1..Len(vs) : countSyllables(vs[k]) = 8}) >= Len(vs)

analyzeCarnavalStyle(vs) ==
  LET styleText == toLowerCase(joinWith(vs, <<" ">>))
      words == foundIn(styleText, carnavalWords)
      exprs == foundIn(styleText, gaditanExpressions)
      hasOctosyllables == hasOctosyllablesOf(vs)
      rhymeAnalysis == analyzeRhyme(vs)
  IN  IF rhymeAnalysis.kind = "throw" THEN rhymeAnalysis
      ELSE LET hasRhyme == rhymeAnalysis.value.type \in {"consonante", "asonante"}
               score == wordScore(words) + exprScore(exprs)
                          + (IF hasOctosyllables THEN 30 ELSE 0)
                          + (IF hasRhyme THEN 20 ELSE 0)
               features ==
                 [k \in 1..Len(words) |-> wordFeature(words[k])]
                 \o [k \in 1..Len(exprs) |-> exprFeature(exprs[k])]
                 \o (IF hasOctosyllables THEN <<octosyllableFeature>> ELSE <<>>)
                 \o (IF hasRhyme
                     THEN <<rhymeFeature(rhymeTypeChars(rhymeAnalysis.value.type))>>
                     ELSE <<>>)
           IN  Return([ score |-> Min2(score, 100),
                        level |-> getStyleLevel(score),
                        features |-> features,
                        recommendations |-> getStyleRecommendations(score, features) ])

(***************************************************************************)
(* analyzePoem and the verse segmentation.                                 *)
(***************************************************************************)
\* The en dash and the em dash, characters outside the module's character set.
EnDash == "U+2013"

EmDash == "U+2014"

\* .replace(/["']/g, '"')
normalizeQuotes(s) == [i \in 1..Len(s) |-> IF s[i] \in {"\"", "'"} THEN "\"" ELSE s[i]]

\* .replace(/[en dash, em dash]/g, '-')
normalizeDashes(s) == [i \in 1..Len(s) |-> IF s[i] \in {EnDash, EmDash} THEN "-" ELSE s[i]]

\* .replace(/\s+/g, ' '): every run of white space, line breaks included,
\* becomes one space.
RECURSIVE collapseWhitespace(_)
collapseWhitespace(s) ==
  IF s = <<>> THEN <<>>
  ELSE IF IsSpace(Head(s))
       THEN <<" ">> \o collapseWhitespace(dropLeadingSpace(s))
       ELSE <<Head(s)>> \o collapseWhitespace(Tail(s))

\* .replace(/^\s+|\s+$/gm, ''), on a string in which collapseWhitespace has
\* left no line break: the one line loses its leading and trailing space.
stripLineEdges(s) == dropTrailingSpace(dropLeadingSpace(s))

cleanText(t) ==
  trim(stripLineEdges(collapseWhitespace(normalizeDashes(normalizeQuotes(t)))))

\* line.match(/^[\d\s\-_=]+$/)
isSeparatorLine(line) ==
  /\ line /= <<>>
  /\ \A i \in 1..Len(line) : line[i] \in DigitChars \cup WhiteSpace \cup {"-", "_", "="}

\* extractVerses without the filter on separator lines.
extractVersesKeepSeparators(t) ==
  LET lines == split(t, {"\n"})
      trimmed == [i \in 1..Len(lines) |-> trim(lines[i])]
  IN  SelectSeq(trimmed, LAMBDA line : Len(line) > 0)

\* extractVerses without the trimming of the lines.
extractVersesUntrimmed(t) ==
  LET lines == split(t, {"\n"})
      nonEmpty == SelectSeq(lines, LAMBDA line : Len(line) > 0)
  IN  SelectSeq(nonEmpty, LAMBDA line : ~isSeparatorLine(line))

extractVerses(t) ==
  LET lines == split(t, {"\n"})
      trimmed == [i \in 1..Len(lines) |-> trim(lines[i])]
      nonEmpty == SelectSeq(trimmed, LAMBDA line : Len(line) > 0)
  IN  SelectSeq(nonEmpty, LAMBDA line : ~isSeparatorLine(line))

(***************************************************************************)
(* POST /quick-analysis (src/server/routes/poetry.js).  A response is its  *)
(* status and the fields of its body; the fields a body lacks are empty.   *)
(***************************************************************************)
MaxTextLength == 2000

OctosyllabicMessage == "¡Perfecto para el Carnaval! Métrica octosílaba tradicional."

FreeMeterMessage == "Métrica libre. Considera usar octosílabos para estilo carnavalero."

InvalidTextError == "Texto inválido o demasiado largo (máximo 2000 caracteres)"

QuickAnalysisError == "Error en análisis rápido"

errorResponse(code, error) ==
  [ status |-> code, success |-> FALSE, versesCount |-> 0, syllables |-> <<>>,
    rhymePattern |-> "", isOctosyllabic |-> FALSE, message |-> "", error |-> error ]

\* text.split(/\n+/).filter(line => line.trim().length > 0)
quickVerses(t) ==
  SelectSeq(split(t, {"\n"}), LAMBDA line : Len(trim(line)) > 0)

\* verses.every(verse => syllables >= 7 && syllables <= 9)
isOctosyllabic(vs) ==
  \A i \in 1..Len(vs) : countSyllables(vs[i]) >= 7 /\ countSyllables(vs[i]) <= 9

postQuickAnalysis(t) ==
  IF t = <<>> \/ Len(t) > MaxTextLength
  THEN errorResponse(400, InvalidTextError)
  ELSE LET vs == quickVerses(t)
           rhyme == analyzeRhyme(vs)
       IN  IF rhyme.kind = "throw"
           THEN errorResponse(500, QuickAnalysisError)
           ELSE [ status |-> 200,
                  success |-> TRUE,
                  versesCount |-> Len(vs),
                  syllables |-> [i \in 1..Len(vs) |-> countSyllables(vs[i])],
                  rhymePattern |-> rhyme.value.scheme,
                  isOctosyllabic |-> isOctosyllabic(vs),
                  message |-> IF isOctosyllabic(vs) THEN OctosyllabicMessage
                              ELSE FreeMeterMessage,
                  error |-> "" ]

NoVersesError == "Error: No se encontraron versos válidos en el texto"

\* analyzePoem with the values of totalVerses and processingTime exchanged.
analyzePoemSwappedFields(t, analysisLevel, elapsed) ==
  LET vs == extractVerses(cleanText(t))
  IN  IF Len(vs) = 0 THEN Throw(NoVersesError)
      ELSE LET metricAnalysis == analyzeMetrics(vs)
               rhymeAnalysis == analyzeRhyme(vs)
           IN  IF metricAnalysis.kind = "throw" THEN metricAnalysis
               ELSE IF rhymeAnalysis.kind = "throw" THEN rhymeAnalysis
               ELSE IF analysisLevel = "complete" THEN Throw("TypeError")
               ELSE Return([ verses |-> metricAnalysis.value.verses,
                             totalVerses |-> elapsed,
                             metrics |-> metricAnalysis.value,
                             rhyme |-> rhymeAnalysis.value,
                             processingTime |-> Len(vs) ])

\* elapsed is Date.now() - startTime.  PoetryService defines neither
\* analyzeSentiment nor analyzePoeticDevices, so building the 'complete'
\* record throws a TypeError at its first field.
analyzePoem(t, analysisLevel, elapsed) ==
  LET vs == extractVerses(cleanText(t))
  IN  IF Len(vs) = 0 THEN Throw(NoVersesError)
      ELSE LET metricAnalysis == analyzeMetrics(vs)
               rhymeAnalysis == analyzeRhyme(vs)
           IN  IF metricAnalysis.kind = "throw" THEN metricAnalysis
               ELSE IF rhymeAnalysis.kind = "throw" THEN rhymeAnalysis
               ELSE IF analysisLevel = "complete" THEN Throw("TypeError")
               ELSE Return([ verses |-> metricAnalysis.value.verses,
                             totalVerses |-> Len(vs),
                             metrics |-> metricAnalysis.value,
                             rhyme |-> rhymeAnalysis.value,
                             processingTime |-> elapsed ])

(***************************************************************************)
(* Inputs.                                                                 *)
(***************************************************************************)
BoundedStrings(alphabet, n) == UNION { [1..k -> alphabet] : k \in 0..n }

casa == <<"c","a","s","a">>

aire == <<"a","i","r","e">>

leer == <<"l","e","e","r">>

mar == <<"m","a","r">>

sol == <<"s","o","l">>

luz == <<"l","u","z">>

paz == <<"p","a","z">>

vida == <<"v","i","d","a">>

querida == <<"q","u","e","r","i","d","a">>

da == <<"d","a">>

\* A verse that ends in white space: its last white-space-delimited token is empty.
vidaSpace == <<"v","i","d","a"," ">>

vidaAire == <<"v","i","d","a"," ","a","i","r","e">>

vivaLaSal == <<"v","i","v","a"," ","l","a"," ","s","a","l">>

enLaCaletaDeCadiz == <<"e","n"," ","l","a"," ","c","a","l","e","t","a"," ","d","e"," ","c","a","d","i","z">>

coroCoacFallaBarrioPueblo ==
  <<"c","o","r","o"," ","c","o","a","c"," ","f","a","l","l","a"," ","b","a","r","r","i","o"," ","p","u","e","b","l","o">>

vivaElArteDelMarYLaSalDeCadiz ==
  <<"v","i","v","a"," ","e","l"," ","a","r","t","e"," ","d","e","l"," ","m","a","r"," ","y"," ",
    "l","a"," ","s","a","l"," ","d","e"," ","c","a","d","i","z">>

aSeparatorAB == <<"a","\n","-","-","\n","\n"," ","a"," ","b"," ">>

VerseTextAlphabet == {"a", "1", " ", "\n", "-"}

VerseTextInputs == BoundedStrings(VerseTextAlphabet, MaxVerseTextLen) \cup {aSeparatorAB}

\* Syllable counts: those with a name of their own, 5 for the seguidilla and
\* 12 for a count named by its number.
CountValues == {5, 6, 7, 8, 9, 11, 12}

CountInputs == BoundedStrings(CountValues, MaxCounts)

EndingAlphabet == {"a", "d", "i", "í", "D", ".", " "}

EndingInputs == BoundedStrings(EndingAlphabet, MaxEndingLen)

\* Words of two consonants, no two of them alike: no two rhyme, so that
\* every one of them opens a rhyme group.
PlainLetters == <<"b", "c", "d", "f", "g", "h", "j">>

plainWord(k) == <<PlainLetters[((k - 1) \div 7) + 1], PlainLetters[((k - 1) % 7) + 1]>>

\* The first n plain words, followed by the k-th of them again when k > 0.
plainVerses(n, k) ==
  [i \in 1..n |-> plainWord(i)] \o (IF k > 0 THEN <<plainWord(k)>> ELSE <<>>)

QuickAlphabet == {"a", "e", " ", "\n"}

QuickInputs == BoundedStrings(QuickAlphabet, MaxQuickLen) \cup {enLaCaletaDeCadiz}

SyllableAlphabet == {"a", "e", "i", "u", "l", "r", " ", ".", "É"}

SyllableInputs == BoundedStrings(SyllableAlphabet, MaxSylLen) \cup {casa, aire, leer}

PoemAlphabet == {"a", " ", "\n", "-"}

PoemInputs == BoundedStrings(PoemAlphabet, MaxPoemLen)

AnalysisLevels == {"basic", "complete"}

RhymeSamples == {mar, sol, luz, paz, vida, querida, da, vidaSpace}

RhymeInputs == BoundedStrings(RhymeSamples, MaxRhymeVerses)

SchemeInputs ==
  BoundedStrings(RhymeSamples, MaxSchemeVerses)
    \cup {plainVerses(n, k) : n \in 0..MaxGroups, k \in 0..MaxGroups}

MetricSamples == {<<>>, mar, vida, querida, vidaAire}

MetricInputs == BoundedStrings(MetricSamples, MaxMetricVerses)

StyleSamples ==
  {mar, sol, luz, vida, querida, vivaLaSal, enLaCaletaDeCadiz, coroCoacFallaBarrioPueblo,
   vivaElArteDelMarYLaSalDeCadiz}

StyleInputs == BoundedStrings(StyleSamples, MaxStyleVerses)

EngineSamples == {<<>>, mar, vida, vidaSpace}

EngineInputs == BoundedStrings(EngineSamples, MaxEngineVerses)

(***************************************************************************)
(* Votes and ranking (src/unnamed/part_000).  The votes table is the       *)
(* sequence of its rows in id order; the cache maps a key to an entry that *)
(* is present or not; requests holds every request received, with the      *)
(* place its handler has reached and, once answered, its response.  The    *)
(* database is taken to answer every statement without error.              *)
(***************************************************************************)
MaxRequests == 3

Users == {"u1", "u2"}

Agrupaciones == {"g1"}

Categorias == {"c1", "c2"}

\* 0 is a score the validation of POST /vote turns down.
Puntuaciones == {0, 5, 9}

\* GET /ranking without a categoria parameter: categoria is falsy.
NoCategoria == ""

RankingLimit == 50

\* const cacheKey = `ranking_${categoria || 'all'}`
cacheKey(categoria) == "ranking_" \o (IF categoria = NoCategoria THEN "all" ELSE categoria)

CacheKeys == {"ranking"} \cup {cacheKey(c) : c \in Categorias \cup {NoCategoria}}

NotCached == [present |-> FALSE, value |-> <<>>]

Cached(value) == [present |-> TRUE, value |-> value]

EmptyCache == [k \in CacheKeys |-> NotCached]

\* cache.del(key)
cacheDel(c, key) == [c EXCEPT ![key] = NotCached]

\* cache.set(key, value, 300)
cacheSet(c, key, value) == [c EXCEPT ![key] = Cached(value)]

\* SELECT id FROM votes WHERE userId = ? AND agrupacion = ? AND categoria = ?
existingVote(table, userId, agrupacion, categoria) ==
  \E n \in 1..Len(table) :
    /\ table[n].userId = userId
    /\ table[n].agrupacion = agrupacion
    /\ table[n].categoria = categoria

\* INSERT INTO votes (...) VALUES (...): the new row takes the next id.
insertVote(table, userId, agrupacion, categoria, puntuacion) ==
  Append(table, [id |-> Len(table) + 1, userId |-> userId, agrupacion |-> agrupacion,
                 categoria |-> categoria, puntuacion |-> puntuacion])

\* FROM votes [WHERE categoria = ?]
rowsOfCategoria(table, categoria) ==
  {n \in 1..Len(table) : categoria = NoCategoria \/ table[n].categoria = categoria}

\* GROUP BY agrupacion, categoria
groupsOf(table, categoria) ==
  {<<table[n].agrupacion, table[n].categoria>> : n \in rowsOfCategoria(table, categoria)}

RECURSIVE sumScores(_, _)
sumScores(table, ns) ==
  IF ns = {} THEN 0
  ELSE LET n == CHOOSE m \in ns : TRUE
       IN  table[n].puntuacion + sumScores(table, ns \ {n})

\* One row of the grouped query: COUNT(*), MIN, MAX and the sum AVG divides.
groupRow(table, categoria, g) ==
  LET ns == {n \in rowsOfCategoria(table, categoria) :
               table[n].agrupacion = g[1] /\ table[n].categoria = g[2]}
  IN  [agrupacion |-> g[1], categoria |-> g[2],
       sumScore |-> sumScores(table, ns), voteCount |-> Cardinality(ns),
       minScore |-> CHOOSE lo \in {table[n].puntuacion : n \in ns} :
                      \A n \in ns : lo <= table[n].puntuacion,
       maxScore |-> CHOOSE hi \in {table[n].puntuacion : n \in ns} :
                      \A n \in ns : hi >= table[n].puntuacion]

\* ORDER BY avgScore DESC, voteCount DESC: a may come before b.
mayPrecede(a, b) ==
  \/ a.sumScore * b.voteCount > b.sumScore * a.voteCount
  \/ /\ a.sumScore * b.voteCount = b.sumScore * a.voteCount
     /\ a.voteCount >= b.voteCount

\* The results the grouped query may give: the group rows in an order that
\* ORDER BY allows (rows that tie come in either order), cut at LIMIT 50.
queryRankings(table, categoria) ==
  LET groups == groupsOf(table, categoria)
      count == Cardinality(groups)
      orders == {s \in [1..count -> groups] :
                   /\ \A i \in 1..count : \A j \in 1..count : s[i] = s[j] => i = j
                   /\ \A i \in 1..count : \A j \in i..count :
                        mayPrecede(groupRow(table, categoria, s[i]),
                                   groupRow(table, categoria, s[j]))}
  IN  {[i \in 1..Min2(count, RankingLimit) |-> groupRow(table, categoria, s[i])] : s \in orders}

\* parseFloat(row.avgScore.toFixed(2)), in hundredths.
avgScoreOf(row) == (200 * row.sumScore + row.voteCount) \div (2 * row.voteCount)

\* rows.map((row, index) => ({...row, position, avgScore, scoreRange}))
processedRankings(rows) ==
  [i \in 1..Len(rows) |->
     [agrupacion |-> rows[i].agrupacion, categoria |-> rows[i].categoria,
      avgScore |-> avgScoreOf(rows[i]), voteCount |-> rows[i].voteCount,
      minScore |-> rows[i].minScore, maxScore |-> rows[i].maxScore,
      position |-> i,
      scoreRange |-> ToString(rows[i].minScore) \o "-" \o ToString(rows[i].maxScore)]]

\* The rankings a query over the table may answer with.
rankingsOf(table, categoria) == {processedRankings(rows) : rows \in queryRankings(table, categoria)}

\* if (!agrupacion || !categoria || !puntuacion || puntuacion < 1 || puntuacion > 10)
invalidVote(agrupacion, categoria, puntuacion) ==
  \/ agrupacion = ""
  \/ categoria = ""
  \/ puntuacion = 0
  \/ puntuacion < 1
  \/ puntuacion > 10

\* The votes the client had seen accepted when it sent a request.
acceptedVotes(reqs) ==
  {i \in 1..Len(reqs) : reqs[i].route = "vote" /\ reqs[i].status = 200}

Request(route, userId, agrupacion, categoria, puntuacion, pc, status, result) ==
  [route |-> route, userId |-> userId, agrupacion |-> agrupacion,
   categoria |-> categoria, puntuacion |-> puntuacion,
   pc |-> pc, status |-> status, result |-> result,
   after |-> acceptedVotes(requests)]

respond(reqs, i, status, result) ==
  [reqs EXCEPT ![i].pc = "done", ![i].status = status, ![i].result = result]

NoTraffic ==
  /\ votes = <<>>
  /\ cache = EmptyCache
  /\ requests = <<>>

\* router.post('/vote'): validation, then the SELECT is sent to the database.
PostVote ==
  /\ Len(requests) < MaxRequests
  /\ \E userId \in Users, agrupacion \in Agrupaciones,
        categoria \in Categorias, puntuacion \in Puntuaciones :
       requests' = Append(requests,
         IF invalidVote(agrupacion, categoria, puntuacion)
         THEN Request("vote", userId, agrupacion, categoria, puntuacion, "done", 400, <<>>)
         ELSE Request("vote", userId, agrupacion, categoria, puntuacion, "select", 0, <<>>))
  /\ UNCHANGED <<text, verses, level, counts, calls, votes, cache>>

\* The SELECT runs and its callback answers 409 or sends the INSERT.
VoteSelected ==
  /\ \E i \in 1..Len(requests) :
       /\ requests[i].pc = "select"
       /\ requests' =
            IF existingVote(votes, requests[i].userId, requests[i].agrupacion,
                            requests[i].categoria)
            THEN respond(requests, i, 409, <<>>)
            ELSE [requests EXCEPT ![i].pc = "insert"]
  /\ UNCHANGED <<text, verses, level, counts, calls, votes, cache>>

\* The INSERT runs and its callback deletes the cache key 'ranking' and
\* answers with the id of the new row.
VoteInserted ==
  /\ \E i \in 1..Len(requests) :
       /\ requests[i].pc = "insert"
       /\ votes' = insertVote(votes, requests[i].userId, requests[i].agrupacion,
                              requests[i].categoria, requests[i].puntuacion)
       /\ cache' = cacheDel(cache, "ranking")
       /\ requests' = respond(requests, i, 200, [voteId |-> Len(votes) + 1])
  /\ UNCHANGED <<text, verses, level, counts, calls>>

\* router.get('/ranking'): a cached ranking is the answer; otherwise the
\* grouped query is sent to the database.
GetRanking ==
  /\ Len(requests) < MaxRequests
  /\ \E categoria \in Categorias \cup {NoCategoria} :
       requests' = Append(requests,
         IF cache[cacheKey(categoria)].present
         THEN Request("ranking", "", "", categoria, 0, "done", 200,
                      [rankings |-> cache[cacheKey(categoria)].value, fromCache |-> TRUE])
         ELSE Request("ranking", "", "", categoria, 0, "query", 0, <<>>))
  /\ UNCHANGED <<text, verses, level, counts, calls, votes, cache>>

\* The grouped query runs and its callback caches and answers the ranking.
RankingQueried ==
  /\ \E i \in 1..Len(requests) :
       /\ requests[i].pc = "query"
       /\ \E rankings \in rankingsOf(votes, requests[i].categoria) :
            /\ cache' = cacheSet(cache, cacheKey(requests[i].categoria), rankings)
            /\ requests' = respond(requests, i, 200,
                                   [rankings |-> rankings, fromCache |-> FALSE])
  /\ UNCHANGED <<text, verses, level, counts, calls, votes>>

\* A cached entry reaches its time to live (300 seconds) and is dropped.
CacheExpired ==
  /\ \E key \in CacheKeys :
       /\ cache[key].present
       /\ cache' = cacheDel(cache, key)
  /\ UNCHANGED <<text, verses, level, counts, calls, votes, requests>>

(***************************************************************************)
(* Operations.  The engine keeps no state between calls: the state of the  *)
(* model is the input under analysis and the outcomes of the calls made on *)
(* it, in order.                                                           *)
(***************************************************************************)
Call(opName, outcome) == [op |-> opName, kind |-> outcome.kind, value |-> outcome.value]

CountSyllables ==
  /\ Len(calls) < 1
  /\ calls' = Append(calls, Call("countSyllables", Return(countSyllables(text))))
  /\ UNCHANGED <<text, verses, level, counts, votes, cache, requests>>

\* analyzePoem(text, level); the clock advances by elapsed during the call.
AnalyzePoem ==
  /\ Len(calls) < MaxCalls
  /\ \E elapsed \in 0..MaxElapsed :
       calls' = Append(calls, Call("analyzePoem", analyzePoem(text, level, elapsed)))
  /\ UNCHANGED <<text, verses, level, counts, votes, cache, requests>>

AnalyzeMetrics ==
  /\ Len(calls) < 1
  /\ calls' = Append(calls, Call("analyzeMetrics", analyzeMetrics(verses)))
  /\ UNCHANGED <<text, verses, level, counts, votes, cache, requests>>

AnalyzeRhyme ==
  /\ Len(calls) < 1
  /\ calls' = Append(calls, Call("analyzeRhyme", analyzeRhyme(verses)))
  /\ UNCHANGED <<text, verses, level, counts, votes, cache, requests>>

AnalyzeCarnavalStyle ==
  /\ Len(calls) < 1
  /\ calls' = Append(calls, Call("analyzeCarnavalStyle", analyzeCarnavalStyle(verses)))
  /\ UNCHANGED <<text, verses, level, counts, votes, cache, requests>>

ExtractVerses ==
  /\ Len(calls) < 1
  /\ calls' = Append(calls, Call("extractVerses", Return(extractVerses(text))))
  /\ UNCHANGED <<text, verses, level, counts, votes, cache, requests>>

DetermineMetricalPattern ==
  /\ Len(calls) < 1
  /\ calls' = Append(calls, Call("determineMetricalPattern",
                                 Return(determineMetricalPattern(counts))))
  /\ UNCHANGED <<text, verses, level, counts, votes, cache, requests>>

GetVowelPattern ==
  /\ Len(calls) < 1
  /\ calls' = Append(calls, Call("getVowelPattern", Return(getVowelPattern(text))))
  /\ UNCHANGED <<text, verses, level, counts, votes, cache, requests>>

\* detectRhymeScheme on the endings of the verses, as analyzeRhyme calls it.
DetectRhymeScheme ==
  /\ Len(calls) < 1
  /\ calls' = Append(calls,
       Call("detectRhymeScheme",
            Return(detectRhymeScheme([i \in 1..Len(verses) |-> getVowelPattern(verses[i])]))))
  /\ UNCHANGED <<text, verses, level, counts, votes, cache, requests>>

PostQuickAnalysis ==
  /\ Len(calls) < 1
  /\ calls' = Append(calls, Call("POST /quick-analysis", Return(postQuickAnalysis(text))))
  /\ UNCHANGED <<text, verses, level, counts, votes, cache, requests>>

(***************************************************************************)
(* Specifications.  Spec calls the engine's functions on a sequence of     *)
(* verses and on the text those verses make; the others call one entry     *)
(* point over inputs chosen for it.                                        *)
(***************************************************************************)
Init ==
  /\ verses \in EngineInputs
  /\ text = joinWith(verses, <<"\n">>)
  /\ level = "basic"
  /\ counts = <<>>
  /\ calls = <<>>
  /\ NoTraffic

Next ==
  \/ CountSyllables
  \/ AnalyzeMetrics
  \/ AnalyzeRhyme
  \/ AnalyzeCarnavalStyle

Spec == Init /\ [][Next]_vars

InitSyllables ==
  /\ text \in SyllableInputs
  /\ verses = <<>>
  /\ level = "basic"
  /\ counts = <<>>
  /\ calls = <<>>
  /\ NoTraffic

NextSyllables == CountSyllables

SpecSyllables == InitSyllables /\ [][NextSyllables]_vars

InitPoem ==
  /\ text \in PoemInputs
  /\ verses = <<>>
  /\ level \in AnalysisLevels
  /\ counts = <<>>
  /\ calls = <<>>
  /\ NoTraffic

NextPoem == AnalyzePoem

SpecPoem == InitPoem /\ [][NextPoem]_vars

InitRhyme ==
  /\ verses \in RhymeInputs
  /\ text = <<>>
  /\ level = "basic"
  /\ counts = <<>>
  /\ calls = <<>>
  /\ NoTraffic

NextRhyme == AnalyzeRhyme

SpecRhyme == InitRhyme /\ [][NextRhyme]_vars

InitMetrics ==
  /\ verses \in MetricInputs
  /\ text = <<>>
  /\ level = "basic"
  /\ counts = <<>>
  /\ calls = <<>>
  /\ NoTraffic

NextMetrics == AnalyzeMetrics

SpecMetrics == InitMetrics /\ [][NextMetrics]_vars

InitStyle ==
  /\ verses \in StyleInputs
  /\ text = <<>>
  /\ level = "basic"
  /\ counts = <<>>
  /\ calls = <<>>
  /\ NoTraffic

NextStyle == AnalyzeCarnavalStyle

SpecStyle == InitStyle /\ [][NextStyle]_vars

InitVotes ==
  /\ text = <<>>
  /\ verses = <<>>
  /\ level = "basic"
  /\ counts = <<>>
  /\ calls = <<>>
  /\ NoTraffic

NextVotes ==
  \/ PostVote
  \/ VoteSelected
  \/ VoteInserted
  \/ GetRanking
  \/ RankingQueried
  \/ CacheExpired

SpecVotes == InitVotes /\ [][NextVotes]_vars

InitVerses ==
  /\ text \in VerseTextInputs
  /\ verses = <<>>
  /\ level = "basic"
  /\ counts = <<>>
  /\ calls = <<>>
  /\ NoTraffic

NextVerses == ExtractVerses

SpecVerses == InitVerses /\ [][NextVerses]_vars

InitPattern ==
  /\ text = <<>>
  /\ verses = <<>>
  /\ level = "basic"
  /\ counts \in CountInputs
  /\ calls = <<>>
  /\ NoTraffic

NextPattern == DetermineMetricalPattern

SpecPattern == InitPattern /\ [][NextPattern]_vars

InitEnding ==
  /\ text \in EndingInputs
  /\ verses = <<>>
  /\ level = "basic"
  /\ counts = <<>>
  /\ calls = <<>>
  /\ NoTraffic

NextEnding == GetVowelPattern

SpecEnding == InitEnding /\ [][NextEnding]_vars

InitScheme ==
  /\ verses \in SchemeInputs
  /\ text = <<>>
  /\ level = "basic"
  /\ counts = <<>>
  /\ calls = <<>>
  /\ NoTraffic

NextScheme == DetectRhymeScheme

SpecScheme == InitScheme /\ [][NextScheme]_vars

InitQuick ==
  /\ text \in QuickInputs
  /\ verses = <<>>
  /\ level = "basic"
  /\ counts = <<>>
  /\ calls = <<>>
  /\ NoTraffic

NextQuick == PostQuickAnalysis

SpecQuick == InitQuick /\ [][NextQuick]_vars

(***************************************************************************)
(* Properties.                                                             *)
(***************************************************************************)
CallsOf(opName) == {k \in 1..Len(calls) : calls[k].op = opName}

\* A character that countSyllables keeps as part of a word: a letter (accented
\* or not), a digit or the underscore.
HasWordCharacter(t) ==
  \E i \in 1..Len(t) : t[i] \in WordChars \cup AccentedLowerLetters \cup AccentedUpperLetters

C2_CasaAireLeerCountTwo ==
  \A k \in CallsOf("countSyllables") :
    text \in {casa, aire, leer} => calls[k].value = 2

\* Every character of the text is a digit, white space, '-', '_' or '=', so
\* every line of it is empty or a separator.
OnlySeparatorCharacters(t) ==
  \A i \in 1..Len(t) : t[i] \in DigitChars \cup WhiteSpace \cup {"-", "_", "="}

\* C3: analyzePoem on a text that yields no verse (empty, white space only, or
\* separator lines only) ends in the no-verses error and returns no analysis.
C3_NoVersesIsAnError ==
  \A k \in CallsOf("analyzePoem") :
    OnlySeparatorCharacters(text) =>
      calls[k].kind = "throw" /\ calls[k].value = NoVersesError

C3_Witness ==
  /\ CallsOf("analyzePoem") /= {}
  /\ OnlySeparatorCharacters(text)
  /\ "-" \in Range(text)
  /\ "\n" \in Range(text)
  /\ calls[1].kind = "throw"

\* C4: countSyllables, analyzeMetrics, analyzeRhyme and analyzeCarnavalStyle
\* complete with a result for every string and every sequence of strings.
C4_EngineFunctionsNeverThrow ==
  \A k \in 1..Len(calls) : calls[k].kind = "return"

\* C5: analyzePoem analyses one verse per non-empty, non-separator line of the
\* text: totalVerses, the metric records and the rhyme records all number as
\* many as those lines.
C5_OneVersePerLine ==
  \A k \in CallsOf("analyzePoem") :
    calls[k].kind = "return" =>
      LET lineCount == Len(extractVerses(text))
      IN  /\ calls[k].value.totalVerses = lineCount
          /\ Len(calls[k].value.metrics.verses) = lineCount
          /\ Len(calls[k].value.rhyme.details) = lineCount

\* Two or more verses whose last words all end in the same two characters.
SameTwoCharacterEnding(vs) ==
  /\ Len(vs) >= 2
  /\ \A i \in 1..Len(vs) :
       /\ Len(vs[i]) >= 2
       /\ ~IsSpace(vs[i][Len(vs[i])])
       /\ ~IsSpace(vs[i][Len(vs[i]) - 1])
       /\ vs[i][Len(vs[i])] = vs[1][Len(vs[1])]
       /\ vs[i][Len(vs[i]) - 1] = vs[1][Len(vs[1]) - 1]

\* C6: for two or more verses whose last words all end in the same two
\* characters, analyzeRhyme returns a scheme of one 'A' per verse, the type
\* 'consonante' and the quality 'excelente'.
C6_SharedEndingIsOneConsonantGroup ==
  \A k \in CallsOf("analyzeRhyme") :
    SameTwoCharacterEnding(verses) =>
      /\ calls[k].kind = "return"
      /\ calls[k].value.scheme = joinStr([i \in 1..Len(verses) |-> "A"], "")
      /\ calls[k].value.type = "consonante"
      /\ calls[k].value.quality = JsStr("excelente")

C6_Witness ==
  /\ CallsOf("analyzeRhyme") /= {}
  /\ verses = <<vida, querida, da>>
  /\ calls[1].kind = "return"
  /\ calls[1].value.scheme = "AAA"

\* C7, as stated: analyzeRhyme on "mar", "sol", "luz", "paz" returns the scheme
\* "ABCD", the type 'libre' and the quality 'sin rima'.
C7_MarSolLuzPazIsFree ==
  \A k \in CallsOf("analyzeRhyme") :
    verses = <<mar, sol, luz, paz>> =>
      /\ calls[k].kind = "return"
      /\ calls[k].value.scheme = "ABCD"
      /\ calls[k].value.type = "libre"
      /\ calls[k].value.quality = JsStr("sin rima")

\* C7, amended: analyzeRhyme on "mar", "sol", "luz", "paz" returns the scheme
\* "ABCA" ("mar" and "paz" share the vowel pattern "a"), the type 'asonante'
\* and the quality 'sin rima'.
C7_MarSolLuzPazIsAssonant ==
  \A k \in CallsOf("analyzeRhyme") :
    verses = <<mar, sol, luz, paz>> =>
      /\ calls[k].kind = "return"
      /\ calls[k].value.scheme = "ABCA"
      /\ calls[k].value.type = "asonante"
      /\ calls[k].value.quality = JsStr("sin rima")

C7_Witness ==
  /\ CallsOf("analyzeRhyme") /= {}
  /\ verses = <<mar, sol, luz, paz>>
  /\ calls[1].kind = "return"

withThemeWord(vs, w) ==
  IF vs = <<>> THEN <<w>> ELSE [vs EXCEPT ![1] = w \o <<" ">> \o @]

\* The features of more are those of fewer and one theme word besides: the
\* expressions, the octosyllable finding and the rhyme finding are the same.
OneMoreThemeWord(fewer, more) ==
  /\ Range(fewer) \subseteq Range(more)
  /\ \E n \in 1..Len(carnavalWords) :
       Range(more) \ Range(fewer) = {wordFeature(carnavalWords[n])}

\* C9: with the octosyllable and rhyme findings held fixed, a text that matches
\* one more theme word never scores lower.
C9_ScoreMonotoneInThemeWords ==
  \A k \in CallsOf("analyzeCarnavalStyle") :
    calls[k].kind = "return" =>
      \A n \in 1..Len(carnavalWords) :
        LET more == analyzeCarnavalStyle(withThemeWord(verses, carnavalWords[n]))
        IN  (more.kind = "return"
               /\ OneMoreThemeWord(calls[k].value.features, more.value.features))
              => more.value.score >= calls[k].value.score

C9_Witness ==
  /\ CallsOf("analyzeCarnavalStyle") /= {}
  /\ calls[1].kind = "return"
  /\ \E n \in 1..Len(carnavalWords) :
       LET more == analyzeCarnavalStyle(withThemeWord(verses, carnavalWords[n]))
       IN  /\ more.kind = "return"
           /\ OneMoreThemeWord(calls[1].value.features, more.value.features)
           /\ more.value.score > calls[1].value.score

\* d is the greatest difference between two syllable counts of the records.
IsSpreadOf(d, records) ==
  /\ \E i \in 1..Len(records) : \E j \in 1..Len(records) :
       records[i].syllables - records[j].syllables = d
  /\ \A i \in 1..Len(records) : \A j \in 1..Len(records) :
       records[i].syllables - records[j].syllables <= d

\* C10: for a non-empty sequence of verses the statistics report
\* syllableVariation = greatest count - least count, and isRegular exactly
\* when that variation is at most 1.
C10_VariationIsMaxMinusMin ==
  \A k \in CallsOf("analyzeMetrics") :
    calls[k].kind = "return" =>
      /\ IsSpreadOf(calls[k].value.statistics.syllableVariation, calls[k].value.verses)
      /\ \A i \in 1..Len(verses) :
           calls[k].value.verses[i].syllables = countSyllables(verses[i])
      /\ calls[k].value.statistics.isRegular
           <=> (calls[k].value.statistics.syllableVariation <= 1)

C10_Witness ==
  /\ CallsOf("analyzeMetrics") /= {}
  /\ calls[1].kind = "return"
  /\ Len(verses) >= 2
  /\ calls[1].value.statistics.syllableVariation >= 2
  /\ ~calls[1].value.statistics.isRegular

\* C11: the votes table never holds two rows for one (userId, agrupacion,
\* categoria), and a valid vote sent after a vote for the same triple was
\* accepted is answered with 409 Conflict.
C11_AtMostOneVotePerTriple ==
  /\ \A m \in 1..Len(votes) : \A n \in 1..Len(votes) :
       (/\ votes[m].userId = votes[n].userId
        /\ votes[m].agrupacion = votes[n].agrupacion
        /\ votes[m].categoria = votes[n].categoria) => m = n
  /\ \A i \in 1..Len(requests) :
       (/\ requests[i].route = "vote"
        /\ requests[i].pc = "done"
        /\ requests[i].status /= 400
        /\ \E j \in requests[i].after :
             /\ requests[j].userId = requests[i].userId
             /\ requests[j].agrupacion = requests[i].agrupacion
             /\ requests[j].categoria = requests[i].categoria)
         => requests[i].status = 409

\* C12: a GET /ranking sent after a vote was accepted is answered with a
\* ranking computed from votes that include that vote, whenever the vote is
\* one the categoria filter lets through.
C12_RankingIncludesAcceptedVotes ==
  \A i \in 1..Len(requests) :
    (requests[i].route = "ranking" /\ requests[i].pc = "done") =>
      \A j \in requests[i].after :
        (requests[i].categoria \in {NoCategoria, requests[j].categoria}) =>
          \E k \in requests[j].result.voteId..Len(votes) :
            requests[i].result.rankings
              \in rankingsOf(SubSeq(votes, 1, k), requests[i].categoria)

\* The places of t where a line starts: a character other than a newline that
\* is the first of t or follows a newline.
LineStarts(t) == {i \in 1..Len(t) : t[i] /= "\n" /\ (i = 1 \/ t[i - 1] = "\n")}

LineEnd(t, i) ==
  CHOOSE j \in i..Len(t) :
    /\ \A k \in i..j : t[k] /= "\n"
    /\ j = Len(t) \/ t[j + 1] = "\n"

\* The line that starts at i holds a character other than a digit, white
\* space, '-', '_' and '=': it is neither empty once trimmed nor a separator.
IsVerseLine(t, i) ==
  \E k \in i..LineEnd(t, i) : t[k] \notin DigitChars \cup WhiteSpace \cup {"-", "_", "="}

TrimmedLine(t, i) ==
  LET inked == {k \in i..LineEnd(t, i) : t[k] \notin WhiteSpace}
  IN  SubSeq(t, CHOOSE k \in inked : \A m \in inked : k <= m,
                CHOOSE k \in inked : \A m \in inked : k >= m)

VerseLineStarts(t) == {i \in LineStarts(t) : IsVerseLine(t, i)}

\* C13: extractVerses returns, in their order in the text, the trimmed lines
\* that are neither empty nor made only of digits, white space, '-', '_' and
\* '=', the lines being what runs of newlines separate; every verse returned
\* is non-empty and trimmed.
C13_VersesAreTheTrimmedLines ==
  \A c \in CallsOf("extractVerses") :
    LET result == calls[c].value
        starts == VerseLineStarts(text)
    IN  /\ calls[c].kind = "return"
        /\ Len(result) = Cardinality(starts)
        /\ \A i \in starts :
             result[Cardinality({j \in starts : j <= i})] = TrimmedLine(text, i)
        /\ \A k \in 1..Len(result) :
             /\ result[k] /= <<>>
             /\ result[k][1] \notin WhiteSpace
             /\ result[k][Len(result[k])] \notin WhiteSpace

C13_Witness ==
  /\ CallsOf("extractVerses") /= {}
  /\ text = aSeparatorAB
  /\ calls[1].value = << <<"a">>, <<"a"," ","b">> >>

\* The vowels of a word that do not form a listed diphthong with the character
\* before them: the syllables C14 says the word has.
Nuclei(word) ==
  {i \in 1..Len(word) :
     /\ isVowel(word[i])
     /\ ~(i > 1 /\ <<word[i - 1], word[i]>> \in diphthongs)}

IsSingleWord(t) == t /= <<>> /\ \A i \in 1..Len(t) : ~IsSpace(t[i])

\* C14: for a text of one word, countSyllables counts one syllable per vowel
\* that does not form one of the 13 diphthongs with the character before it
\* (and at least 1): 'ai' counts one syllable, 'ea' and 'ee' count two.
C14_NewSyllableUnlessDiphthong ==
  \A c \in CallsOf("countSyllables") :
    IsSingleWord(syllableText(text)) =>
      calls[c].value = Max2(1, Cardinality(Nuclei(syllableText(text))))

\* The places of the cleaned text where a word starts.
WordStarts(t) == {i \in 1..Len(t) : ~IsSpace(t[i]) /\ (i = 1 \/ IsSpace(t[i - 1]))}

WordAt(t, i) ==
  SubSeq(t, i, CHOOSE j \in i..Len(t) :
                 /\ \A k \in i..j : ~IsSpace(t[k])
                 /\ j = Len(t) \/ IsSpace(t[j + 1]))

HasVowel(word) == \E i \in 1..Len(word) : isVowel(word[i])

\* The word boundaries of the cleaned text with a vowel on both sides: a vowel
\* at i, then white space only up to the next word, which starts with a vowel.
SinalefaBoundaries(t) ==
  {i \in 1..Len(t) :
     /\ isVowel(t[i])
     /\ \E j \in (i + 2)..Len(t) :
          /\ isVowel(t[j])
          /\ \A k \in (i + 1)..(j - 1) : IsSpace(t[k])}

RECURSIVE SumOver(_, _)
SumOver(t, starts) ==
  IF starts = {} THEN 0
  ELSE LET i == CHOOSE j \in starts : TRUE
       IN  countWordSyllables(WordAt(t, i)) + SumOver(t, starts \ {i})

\* C15: countSyllables returns the sum of its words' syllables less one for
\* each boundary between a word that ends in a vowel and a word that starts
\* with a vowel, and less nothing for any other boundary.
C15_OneSubtractionPerVowelBoundary ==
  \A c \in CallsOf("countSyllables") :
    LET cleaned == syllableText(text)
    IN  cleaned /= <<>> =>
          calls[c].value
            = SumOver(cleaned, WordStarts(cleaned)) - Cardinality(SinalefaBoundaries(cleaned))

C15_Witness ==
  /\ CallsOf("countSyllables") /= {}
  /\ Cardinality(WordStarts(syllableText(text))) = 2
  /\ Cardinality(SinalefaBoundaries(syllableText(text))) = 1
  /\ calls[1].value = 1

AllCountsAre(cs, n) == cs /= <<>> /\ \A i \in 1..Len(cs) : cs[i] = n

MeterNames ==
  [n \in {6, 7, 8, 9, 11} |->
     CASE n = 6 -> "Hexasílabos"
       [] n = 7 -> "Heptasílabos"
       [] n = 8 -> "Octosílabos"
       [] n = 9 -> "Eneasílabos"
       [] n = 11 -> "Endecasílabos"]

\* C17: determineMetricalPattern gives the name of n when every count is n and
\* n is one of 6, 7, 8, 9, 11, 'n sílabas' when every count is another n;
\* for counts that are not all the same, 'Seguidilla' exactly when they are
\* 7, 5, 7, 5, and 'Métrica libre' otherwise.
C17_MetricalPatternLabels ==
  \A c \in CallsOf("determineMetricalPattern") :
    LET label == calls[c].value
    IN  /\ \A n \in CountValues :
             AllCountsAre(counts, n) =>
               label = IF n \in DOMAIN MeterNames THEN MeterNames[n]
                       ELSE ToString(n) \o " sílabas"
        /\ (\A n \in CountValues : ~AllCountsAre(counts, n)) =>
             /\ label = "Seguidilla" <=> counts = <<7, 5, 7, 5>>
             /\ label /= "Seguidilla" => label = "Métrica libre"

C17_Witness ==
  /\ CallsOf("determineMetricalPattern") /= {}
  /\ counts = <<7, 5, 7, 5>>
  /\ calls[1].value = "Seguidilla"

\* The syllable counts of the records analyzeMetrics returned.
CountsOf(records) == [i \in 1..Len(records) |-> records[i].syllables]

\* The counts that occur most often in cs.
Modes(cs) ==
  {m \in Range(cs) : \A o \in Range(cs) : frequencyOf(cs, m) >= frequencyOf(cs, o)}

\* The mode that occurs first in cs.
FirstMode(cs) == cs[CHOOSE i \in 1..Len(cs) : cs[i] \in Modes(cs) /\ \A j \in 1..(i - 1) : cs[j] \notin Modes(cs)]

\* C18, as stated: the dominant meter is a mode of the syllable counts, and of
\* several modes the one that comes first in the sequence.
C18_DominantMeterIsFirstMode ==
  \A c \in CallsOf("analyzeMetrics") :
    calls[c].kind = "return" =>
      calls[c].value.statistics.dominantMeter
        = ToString(FirstMode(CountsOf(calls[c].value.verses)))

\* C18, amended: the dominant meter is a mode of the syllable counts, and of
\* several modes the greatest; it is reported as the decimal string of the
\* count.
C18_DominantMeterIsGreatestMode ==
  \A c \in CallsOf("analyzeMetrics") :
    calls[c].kind = "return" =>
      \E m \in Modes(CountsOf(calls[c].value.verses)) :
        /\ \A o \in Modes(CountsOf(calls[c].value.verses)) : m >= o
        /\ calls[c].value.statistics.dominantMeter = ToString(m)

C18_Witness ==
  /\ CallsOf("analyzeMetrics") /= {}
  /\ calls[1].kind = "return"
  /\ CountsOf(calls[1].value.verses) = <<1, 2>>
  /\ calls[1].value.statistics.dominantMeter = "2"

\* The last token of the verse, between white space, in lower case with its
\* diacritics and its punctuation removed.
CleanedLastToken(verse) ==
  LET tokens == split(verse, WhiteSpace)
  IN  SelectSeq(stripDiacritics(toLowerCase(tokens[Len(tokens)])), IsWordChar)

\* C19: the consonant ending of a verse is the last 3 characters of its last
\* token in lower case without diacritics and punctuation, and the vowel
\* pattern the last 2 vowels of that cleaned token, so that trailing
\* punctuation and accents on the last word do not change the endings.
C19_EndingsIgnoreAccentsAndPunctuation ==
  \A c \in CallsOf("getVowelPattern") :
    calls[c].value.object =>
      LET cleaned == CleanedLastToken(text)
      IN  /\ calls[c].value.consonant = sliceLast(cleaned, 3)
          /\ calls[c].value.asonant
               = sliceLast(SelectSeq(cleaned, LAMBDA ch : ch \in {"a","e","i","o","u"}), 2)

\* The verses before verse i that opened a group: the representatives.
RepresentativesBefore(details, i) ==
  {r \in 1..(i - 1) : \A j \in 1..(r - 1) : details[j].rhymeGroup /= details[r].rhymeGroup}

\* C20: every verse is in the group of the first representative before it that
\* it consonant-matches; if it consonant-matches none, in the group of the first
\* representative with its vowel pattern; if none either, in a group no verse
\* before it is in.  What it has in common with verses that are not
\* representatives plays no part.
C20_GroupsByFirstMatchingRepresentative ==
  \A c \in CallsOf("analyzeRhyme") :
    calls[c].kind = "return" =>
      LET details == calls[c].value.details
      IN  \A i \in 1..Len(details) :
            LET reps == RepresentativesBefore(details, i)
                byConsonant ==
                  {r \in reps : rhymesConsonant(details[i].ending.consonant,
                                                details[r].ending.consonant)}
                byAsonant ==
                  {r \in reps : rhymesAsonant(details[i].ending.asonant,
                                              details[r].ending.asonant)}
                matches == IF byConsonant /= {} THEN byConsonant ELSE byAsonant
            IN  IF matches /= {}
                THEN \E r \in matches :
                       /\ \A o \in matches : r <= o
                       /\ details[i].rhymeGroup = details[r].rhymeGroup
                ELSE \A j \in 1..(i - 1) : details[j].rhymeGroup /= details[i].rhymeGroup

\* "vida" consonant-matches "da", which joined the group of "mar" by its vowel
\* pattern, but not the representative "mar": it opens a group of its own.
C20_Witness ==
  /\ CallsOf("analyzeRhyme") /= {}
  /\ verses = <<mar, da, vida>>
  /\ calls[1].kind = "return"
  /\ calls[1].value.scheme = "AAB"

\* The labels of one, two or three uppercase letters.
UppercaseLabels ==
  UpperLetters
    \cup {a \o b : a \in UpperLetters, b \in UpperLetters}
    \cup {a \o b \o c : a \in UpperLetters, b \in UpperLetters, c \in UpperLetters}

\* C21: every group label detectRhymeScheme gives is made of uppercase
\* letters A-Z only; the 27th and later groups have labels of several letters.
C21_LabelsAreUppercaseLetters ==
  \A c \in CallsOf("detectRhymeScheme") :
    \A i \in 1..Len(calls[c].value.groups) :
      calls[c].value.groups[i] \in UppercaseLabels

\* The last word of a verse, in lower case; empty when the verse ends in
\* white space.
LastWordOf(verse) ==
  LET lower == toLowerCase(verse)
      inked == {k \in 1..Len(lower) : ~IsSpace(lower[k])}
  IN  IF lower = <<>> \/ IsSpace(lower[Len(lower)]) THEN <<>>
      ELSE SubSeq(lower, CHOOSE k \in 1..Len(lower) :
                           /\ \A m \in k..Len(lower) : m \in inked
                           /\ k = 1 \/ (k - 1) \notin inked,
                  Len(lower))

\* Two verses consonant-match: their last words have two characters or more
\* and end in the same two.
ConsonantMatch(v, w) ==
  LET a == LastWordOf(v)
      b == LastWordOf(w)
  IN  /\ Len(a) >= 2
      /\ Len(b) >= 2
      /\ SubSeq(a, Len(a) - 1, Len(a)) = SubSeq(b, Len(b) - 1, Len(b))

\* The last two vowels of the last word of a verse.
VowelPatternOf(verse) ==
  sliceLast(SelectSeq(LastWordOf(verse),
                      LAMBDA ch : ch \in {"a","e","i","o","u","á","é","í","ó","ú"}), 2)

AssonantMatch(v, w) == VowelPatternOf(v) /= <<>> /\ VowelPatternOf(v) = VowelPatternOf(w)

Reversed(vs) == [i \in 1..Len(vs) |-> vs[Len(vs) + 1 - i]]

\* C22: the rhyme type is 'consonante' when some two verses consonant-match,
\* else 'asonante' when some two verses have the same non-empty vowel pattern,
\* else 'libre'; the verses taken in the reverse order have the same type.
C22_RhymeTypeOverAllPairs ==
  \A c \in CallsOf("detectRhymeScheme") :
    LET n == Len(verses)
        someConsonant ==
          \E i \in 1..n : \E j \in 1..n : i /= j /\ ConsonantMatch(verses[i], verses[j])
        someAssonant ==
          \E i \in 1..n : \E j \in 1..n : i /= j /\ AssonantMatch(verses[i], verses[j])
    IN  /\ calls[c].value.type
             = IF someConsonant THEN "consonante"
               ELSE IF someAssonant THEN "asonante" ELSE "libre"
        /\ calls[c].value.type
             = detectRhymeScheme([i \in 1..n |-> getVowelPattern(Reversed(verses)[i])]).type

\* "da" and "vida" consonant-match although "paz" stands between them and
\* "da" joined the group of "mar" by its vowel pattern.
C22_Witness ==
  /\ CallsOf("detectRhymeScheme") /= {}
  /\ verses = <<mar, da, paz, vida>>
  /\ calls[1].value.type = "consonante"

\* C28: the rhyme type is 'libre' exactly when no label occurs twice among the
\* groups, that is when no two verses consonant-match or assonant-match.
C28_FreeIffAllLabelsDistinct ==
  \A c \in CallsOf("detectRhymeScheme") :
    LET groups == calls[c].value.groups
        n == Len(groups)
        repeated == \E i \in 1..n : \E j \in 1..n : i /= j /\ groups[i] = groups[j]
        somePair ==
          \E i \in 1..n : \E j \in 1..n :
            /\ i /= j
            /\ ConsonantMatch(verses[i], verses[j]) \/ AssonantMatch(verses[i], verses[j])
    IN  /\ n = Len(verses)
        /\ (calls[c].value.type = "libre") <=> ~repeated
        /\ repeated <=> somePair

C28_Witness ==
  /\ CallsOf("detectRhymeScheme") /= {}
  /\ verses = <<mar, sol, paz>>
  /\ calls[1].value.groups = <<"A", "B", "A">>
  /\ calls[1].value.type = "asonante"

\* The points of a pair of verses: 3 for a consonant match, 2 for an assonant
\* match without it, 1 when only the last characters are the same, else 0.
PairPoints(v, w) ==
  IF ConsonantMatch(v, w) THEN 3
  ELSE IF AssonantMatch(v, w) THEN 2
  ELSE IF LastWordOf(v)[Len(LastWordOf(v))] = LastWordOf(w)[Len(LastWordOf(w))] THEN 1
  ELSE 0

RECURSIVE SumPoints(_, _)
SumPoints(vs, pairs) ==
  IF pairs = {} THEN 0
  ELSE LET p == CHOOSE q \in pairs : TRUE
       IN  PairPoints(vs[p[1]], vs[p[2]]) + SumPoints(vs, pairs \ {p})

\* Every verse has a last word: it does not end in white space.
EndInWords(vs) == \A i \in 1..Len(vs) : LastWordOf(vs[i]) /= <<>>

\* C23: for two or more verses that end in a word, the quality is the label
\* of q = (sum of the points of the unordered pairs) / (3 x number of pairs):
\* 'excelente' above 0.8, 'buena' above 0.6, 'regular' above 0.4, 'débil'
\* above 0.2, else 'sin rima'.
C23_QualityFromPairPoints ==
  \A c \in CallsOf("analyzeRhyme") :
    (Len(verses) >= 2 /\ EndInWords(verses)) =>
      LET pairs == {p \in (1..Len(verses)) \X (1..Len(verses)) : p[1] < p[2]}
          points == SumPoints(verses, pairs)
          whole == 3 * Cardinality(pairs)
      IN  /\ calls[c].kind = "return"
          /\ calls[c].value.quality
               = JsStr(IF 10 * points > 8 * whole THEN "excelente"
                       ELSE IF 10 * points > 6 * whole THEN "buena"
                       ELSE IF 10 * points > 4 * whole THEN "regular"
                       ELSE IF 10 * points > 2 * whole THEN "débil"
                       ELSE "sin rima")

\* "luz" and "paz" have only their last character in common: 1 point of 3.
C23_Witness ==
  /\ CallsOf("analyzeRhyme") /= {}
  /\ verses = <<luz, paz>>
  /\ calls[1].kind = "return"
  /\ calls[1].value.quality = JsStr("débil")

\* C24: the quality of every analysis analyzeRhyme returns is one of the five
\* labels, whatever the number of verses, one and zero included.
C24_QualityIsALabel ==
  \A c \in CallsOf("analyzeRhyme") :
    calls[c].kind = "return" =>
      calls[c].value.quality
        \in {JsStr("excelente"), JsStr("buena"), JsStr("regular"),
             JsStr("débil"), JsStr("sin rima")}

\* C29: the scheme is the labels of the verses in order, one character each;
\* the first verse has the label 'A', and a verse in a group of its own making
\* has the label that follows the highest label of the verses before it.
C29_SchemeHasOneLabelPerVerseInOrder ==
  \A c \in CallsOf("analyzeRhyme") :
    calls[c].kind = "return" =>
      LET details == calls[c].value.details
          labels == [i \in 1..Len(details) |-> details[i].rhymeGroup]
      IN  /\ Len(details) = Len(verses)
          /\ calls[c].value.scheme = joinStr(labels, "")
          /\ \A i \in 1..Len(labels) : labels[i] \in Range(CharsFromA)
          /\ Len(labels) >= 1 => labels[1] = "A"
          /\ \A i \in 2..Len(labels) :
               (\A j \in 1..(i - 1) : labels[j] /= labels[i]) =>
                 \E h \in 1..(i - 1) :
                   /\ \A j \in 1..(i - 1) : charCodeAt(labels[j]) <= charCodeAt(labels[h])
                   /\ charCodeAt(labels[i]) = charCodeAt(labels[h]) + 1

C29_Witness ==
  /\ CallsOf("analyzeRhyme") /= {}
  /\ verses = <<mar, sol, paz, luz>>
  /\ calls[1].kind = "return"
  /\ calls[1].value.scheme = "ABAC"

\* The words of a list found in the verses joined by spaces, in lower case.
FoundWords(vs, list) ==
  {w \in Range(list) : includes(toLowerCase(joinWith(vs, <<" ">>)), w)}

HalfAreOctosyllables(vs) ==
  2 * Cardinality({i \in 1..Len(vs) : countSyllables(vs[i]) = 8}) >= Len(vs)

SomePairRhymes(vs) ==
  \E i \in 1..Len(vs) : \E j \in 1..Len(vs) :
    /\ i /= j
    /\ ConsonantMatch(vs[i], vs[j]) \/ AssonantMatch(vs[i], vs[j])

\* The sum of the four parts of the style score, in hundredths.
RawScore(vs) ==
  10 * Cardinality(FoundWords(vs, carnavalWords))
    + 15 * Cardinality(FoundWords(vs, gaditanExpressions))
    + (IF HalfAreOctosyllables(vs) THEN 30 ELSE 0)
    + (IF SomePairRhymes(vs) THEN 20 ELSE 0)

VocabularySuggestions ==
  << "Incluye más vocabulario típico del Carnaval de Cádiz",
     "Usa expresiones gaditanas como \"pisha\", \"mostro\", \"salero\"" >>

MeterSuggestion == "Considera usar octosílabos (8 sílabas por verso)"

RhymeSuggestion == "Añade rima consonante o asonante para mayor musicalidad"

ReferencesSuggestion ==
  "Referencias al mar, La Caleta, o la vida gaditana enriquecerían el texto"

\* C26, as stated: the suggestions are those of three rules and no other: the
\* vocabulary suggestion when the score is under 0.3, the meter suggestion
\* without an octosyllable feature, the rhyme suggestion without a rhyme
\* feature.
C26_SuggestionsFromThreeRules ==
  \A c \in CallsOf("analyzeCarnavalStyle") :
    calls[c].kind = "return" =>
      calls[c].value.recommendations
        = (IF RawScore(verses) < 30 THEN VocabularySuggestions ELSE <<>>)
          \o (IF HalfAreOctosyllables(verses) THEN <<>> ELSE <<MeterSuggestion>>)
          \o (IF SomePairRhymes(verses) THEN <<>> ELSE <<RhymeSuggestion>>)

\* C26, amended: the suggestions are those of four rules: the three above and
\* the suggestion of references to the sea and La Caleta when the score is
\* under 0.5; with a score of 0.3 or more, an octosyllable feature and a
\* rhyme feature there is no suggestion.
C26_SuggestionsFromFourRules ==
  \A c \in CallsOf("analyzeCarnavalStyle") :
    calls[c].kind = "return" =>
      /\ calls[c].value.recommendations
           = (IF RawScore(verses) < 30 THEN VocabularySuggestions ELSE <<>>)
             \o (IF HalfAreOctosyllables(verses) THEN <<>> ELSE <<MeterSuggestion>>)
             \o (IF SomePairRhymes(verses) THEN <<>> ELSE <<RhymeSuggestion>>)
             \o (IF RawScore(verses) < 50 THEN <<ReferencesSuggestion>> ELSE <<>>)
      /\ (RawScore(verses) >= 30 /\ HalfAreOctosyllables(verses) /\ SomePairRhymes(verses))
           => calls[c].value.recommendations = <<>>

\* "mar", "mar": one theme word and a rhyme, a score of 0.3.
C26_Witness ==
  /\ CallsOf("analyzeCarnavalStyle") /= {}
  /\ verses = <<mar, mar>>
  /\ calls[1].kind = "return"
  /\ calls[1].value.score = 30
  /\ calls[1].value.recommendations = <<MeterSuggestion, ReferencesSuggestion>>

\* C27: POST /quick-analysis answers a text that yields zero verses with an
\* error: never with success and a verse count of 0, never with the message
\* of the traditional octosyllabic meter.
C27_ZeroVersesIsAnError ==
  \A c \in CallsOf("POST /quick-analysis") :
    quickVerses(text) = <<>> =>
      /\ calls[c].value.status /= 200
      /\ ~calls[c].value.success
      /\ calls[c].value.message /= OctosyllabicMessage

PlainVowels == {"a", "e", "i", "o", "u"}

\* The places of a word where a maximal run of adjacent vowels starts.
VowelRunStarts(word) ==
  {i \in 1..Len(word) :
     word[i] \in PlainVowels /\ (i = 1 \/ word[i - 1] \notin PlainVowels)}

RECURSIVE SumOfRuns(_, _)
SumOfRuns(t, starts) ==
  IF starts = {} THEN 0
  ELSE LET i == CHOOSE j \in starts : TRUE
       IN  Max2(1, Cardinality(VowelRunStarts(WordAt(t, i)))) + SumOfRuns(t, starts \ {i})

\* The reference counter: for each word the greater of 1 and the number of its
\* vowel runs, less the sinalefa boundaries; 0 for a text without a word.
ReferenceCount(t) ==
  SumOfRuns(t, WordStarts(t)) - Cardinality(SinalefaBoundaries(t))

\* C30: countSyllables returns what the reference counter returns, which knows
\* no diphthong and no hiatus; for a text with a word the sum less the
\* sinalefas is 1 or more before the floor of 1 is applied.
C30_EqualsRunCountingReference ==
  \A c \in CallsOf("countSyllables") :
    LET cleaned == syllableText(text)
        words == split(cleaned, WhiteSpace)
    IN  /\ calls[c].value = ReferenceCount(cleaned)
        /\ WordStarts(cleaned) /= {} =>
             /\ ReferenceCount(cleaned) >= 1
             /\ sumWordSyllables(words) - applySinalefa(words) >= 1

\* "ea a": a run of two vowels that are no diphthong, and a sinalefa.
C30_Witness ==
  /\ CallsOf("countSyllables") /= {}
  /\ text = <<"e", "a", " ", "a">>
  /\ calls[1].value = 1

====
